---------------------------- MODULE Spec2Model ----------------------------
(***************************************************************************)
(* A model of the duty scheduler: csv_fetcher.CSVFetcher,                  *)
(* duty_parser.DutyParser, ics_generator.ICSGenerator and main.main.       *)
(*                                                                         *)
(* Text (a cell, a location name) is a sequence of one-character strings.  *)
(* A Python dict is a sequence of <<key, value>> pairs in insertion order, *)
(* or, for the configuration, a function whose DOMAIN is the keys present. *)
(***************************************************************************)
EXTENDS Integers, Sequences, FiniteSets, TLC

VARIABLES
    pc,                 \* position of the running program / driver
    cell, people,       \* _parse_multiple_people: argument and result
    year, month,        \* DutyParser.year, DutyParser.month
    duty_assignments,   \* get_duty_dates_with_types: argument
    duty_dates,         \* get_duty_dates_with_types: result
    csv_url,            \* CSVFetcher.csv_url, as the kind of source
    csv_rows,           \* the table (csv_data in main)
    orientation,        \* csv_format["orientation"]
    location_config,    \* DutyParser.location_config
    duty_schedule,      \* the dict returned by parse_duty_schedule
    error,              \* the exception raised by the last call, or NoError
    person_idx,         \* main: position in duty_schedule.items()
    duties_by_location, \* main: dict location -> duty dates
    loc_idx,            \* main: position in duties_by_location.items()
    generated_files,    \* main: list of paths
    out_dir,            \* the output directory: set of <<filename, events>>
    stdout,             \* what main printed, as a sequence of records
    exit_code           \* process exit status, or Running

vars == <<pc, cell, people, year, month, duty_assignments, duty_dates,
          csv_url, csv_rows, orientation, location_config, duty_schedule,
          error, person_idx, duties_by_location, loc_idx, generated_files,
          out_dir, stdout, exit_code>>

(***************************************************************************)
(* Bounds of the model.                                                    *)
(***************************************************************************)
MaxCellLen == 5
MaxRows == 3
MaxAssign == 2
MainMaxRows == 2

(***************************************************************************)
(* Characters.                                                             *)
(***************************************************************************)
Whitespace == {" ", "\t"}
Separators == {"/", ",", "&", "+", "-"} \cup Whitespace
LowerCase == {"a", "b", "c"}
UpperCase == {"A", "B", "C"}

isalpha(c) == c \in LowerCase \cup UpperCase

lower(c) ==
    CASE c = "A" -> "a"
      [] c = "B" -> "b"
      [] c = "C" -> "c"
      [] OTHER -> c

\* str.strip(): leading and trailing whitespace removed.
RECURSIVE lstrip(_)
lstrip(s) ==
    IF s # <<>> /\ Head(s) \in Whitespace THEN lstrip(Tail(s)) ELSE s

RECURSIVE rstrip(_)
rstrip(s) ==
    IF s # <<>> /\ s[Len(s)] \in Whitespace
    THEN rstrip(SubSeq(s, 1, Len(s) - 1))
    ELSE s

strip(s) == rstrip(lstrip(s))

\* any(c.isalpha() for c in s)
any_isalpha(s) == \E i \in 1..Len(s) : isalpha(s[i])

\* cell.strip() if cell else ""
cell_clean(c) == IF c # <<>> THEN strip(c) ELSE <<>>

(***************************************************************************)
(* DutyParser._parse_multiple_people                                       *)
(***************************************************************************)
\* re.split(r"[/,\s&+\-]+", s): the pieces between maximal runs of
\* separators, the empty pieces at both ends included.
RECURSIVE re_split_from(_, _, _, _)
re_split_from(s, i, cur, acc) ==
    IF i > Len(s) THEN Append(acc, cur)
    ELSE IF s[i] \in Separators
         THEN IF i > 1 /\ s[i - 1] \in Separators
              THEN re_split_from(s, i + 1, cur, acc)
              ELSE re_split_from(s, i + 1, <<>>, Append(acc, cur))
         ELSE re_split_from(s, i + 1, Append(cur, s[i]), acc)

re_split(s) == re_split_from(s, 1, <<>>, <<>>)

\* The inner loop: the first alphabetic character of a part, lowercased,
\* as a list of zero or one elements.
RECURSIVE first_alpha(_)
first_alpha(part) ==
    IF part = <<>> THEN <<>>
    ELSE IF isalpha(Head(part)) THEN <<lower(Head(part))>>
    ELSE first_alpha(Tail(part))

RECURSIVE extract_people(_)
extract_people(parts) ==
    IF parts = <<>> THEN <<>>
    ELSE LET part == strip(Head(parts))
         IN  IF part = <<>> THEN extract_people(Tail(parts))
             ELSE first_alpha(part) \o extract_people(Tail(parts))

InSeq(x, s) == \E i \in 1..Len(s) : s[i] = x

\* A mutation of unique_people: duplicates are kept.
unique_people_keep_all(ps, uniq) == uniq \o ps

\* "Remove duplicates while preserving order"
RECURSIVE unique_people(_, _)
unique_people(ps, uniq) ==
    IF ps = <<>> THEN uniq
    ELSE IF InSeq(Head(ps), uniq)
         THEN unique_people(Tail(ps), uniq)
         ELSE unique_people(Tail(ps), Append(uniq, Head(ps)))

parse_multiple_people(cell_content) ==
    unique_people(extract_people(re_split(strip(cell_content))), <<>>)

(***************************************************************************)
(* datetime.date, as DutyParser uses it: date(year, month, day) raises     *)
(* ValueError for a day that is not in the month; weekday() is 0 for       *)
(* Monday .. 6 for Sunday.                                                 *)
(***************************************************************************)
MINYEAR == 1
MAXYEAR == 9999

is_leap(y) == y % 4 = 0 /\ (y % 100 # 0 \/ y % 400 = 0)

DAYS_IN_MONTH == <<31, 28, 31, 30, 31, 30, 31, 31, 30, 31, 30, 31>>

days_in_month(y, m) ==
    IF m = 2 /\ is_leap(y) THEN 29 ELSE DAYS_IN_MONTH[m]

days_before_year(y) ==
    (y - 1) * 365 + ((y - 1) \div 4) - ((y - 1) \div 100) + ((y - 1) \div 400)

RECURSIVE days_before_month(_, _)
days_before_month(y, m) ==
    IF m = 1 THEN 0
    ELSE days_in_month(y, m - 1) + days_before_month(y, m - 1)

\* date(y, m, d) does not raise ValueError
date_valid(y, m, d) ==
    /\ MINYEAR <= y /\ y <= MAXYEAR
    /\ 1 <= m /\ m <= 12
    /\ 1 <= d /\ d <= days_in_month(y, m)

toordinal(y, m, d) == days_before_year(y) + days_before_month(y, m) + d

weekday(y, m, d) == (toordinal(y, m, d) + 6) % 7

\* A mutation of is_weekend: Friday and Saturday instead of Saturday and Sunday.
is_weekend_fri_sat(y, m, day) ==
    IF date_valid(y, m, day) THEN weekday(y, m, day) \in {4, 5} ELSE FALSE

\* DutyParser.is_weekend; y, m are self.year, self.month
is_weekend(y, m, day) ==
    IF date_valid(y, m, day) THEN weekday(y, m, day) \in {5, 6} ELSE FALSE

\* DutyParser.get_duty_dates_with_types: a DutyDate is the tuple
\* (date_obj, is_weekend, location), date_obj being <<year, month, day>>.
RECURSIVE get_duty_dates_with_types(_, _, _)
get_duty_dates_with_types(y, m, assignments) ==
    IF assignments = <<>> THEN <<>>
    ELSE LET a == Head(assignments)
             rest == get_duty_dates_with_types(y, m, Tail(assignments))
         IN  IF date_valid(y, m, a.day)
             THEN <<[date |-> <<y, m, a.day>>,
                     is_weekend |-> is_weekend(y, m, a.day),
                     location |-> a.location]>> \o rest
             ELSE rest

(***************************************************************************)
(* Python dicts that keep insertion order: sequences of <<key, value>>.    *)
(***************************************************************************)
dict_keys(d) == [i \in 1..Len(d) |-> d[i][1]]

dict_has(d, k) == \E i \in 1..Len(d) : d[i][1] = k

dict_get(d, k) == d[CHOOSE i \in 1..Len(d) : d[i][1] = k][2]

\* A mutation of dict_append: a new key goes to the front of the dict.
dict_append_new_key_first(d, k, v) ==
    IF dict_has(d, k)
    THEN [i \in 1..Len(d) |->
            IF d[i][1] = k THEN <<k, Append(d[i][2], v)>> ELSE d[i]]
    ELSE <<<<k, <<v>>>>>> \o d

\* if k not in d: d[k] = []    then    d[k].append(v)
dict_append(d, k, v) ==
    IF dict_has(d, k)
    THEN [i \in 1..Len(d) |->
            IF d[i][1] = k THEN <<k, Append(d[i][2], v)>> ELSE d[i]]
    ELSE Append(d, <<k, <<v>>>>)

\* cfg.get(k, dflt) on a configuration mapping
cfg_get(cfg, k, dflt) == IF k \in DOMAIN cfg THEN cfg[k] ELSE dflt

(***************************************************************************)
(* DutyParser.parse_duty_schedule                                          *)
(***************************************************************************)
\* The fallback literal of location_config.get("default", ...)
GenericWard == <<"G", "W">>

NoOverrides == <<>>

\* location_config.get("by_column", {}).get(col_idx, location_config.get("default", ...))
location_for(lc, col_idx) ==
    cfg_get(cfg_get(lc, "by_column", NoOverrides), col_idx,
            cfg_get(lc, "default", GenericWard))

MaxDay == 31

\* A mutation of day_in_range: the upper limit is not checked.
day_in_range_no_upper(day) == 1 <= day

\* 1 <= day <= 31
day_in_range(day) == 1 <= day /\ day <= MaxDay

\* A mutation of day_of_index: the index is used as the day.
day_of_index_zero_based(idx) == idx

\* day = row_idx + 1, day = col_idx + 1 (0-based to 1-based)
day_of_index(idx) == idx + 1

\* not cell_clean or not any(c.isalpha() for c in cell_clean)
cell_skipped(cc) == cc = <<>> \/ ~any_isalpha(cc)

DutyAssignment(day, location, row_idx) ==
    [day |-> day, location |-> location, row_index |-> row_idx]

NoError == "none"
EmptyDict == <<>>

\* The loops of parse_duty_schedule are modelled in two steps: the
\* (person, assignment) pairs the loops produce, in the order they produce
\* them, and their insertion into duty_schedule in that order.

\* The concatenation of ss[lo], .., ss[hi], by halves.
RECURSIVE flatten_range(_, _, _)
flatten_range(ss, lo, hi) ==
    IF lo > hi THEN <<>>
    ELSE IF lo = hi THEN ss[lo]
    ELSE LET mid == (lo + hi) \div 2
         IN  flatten_range(ss, lo, mid) \o flatten_range(ss, mid + 1, hi)

flatten(ss) == flatten_range(ss, 1, Len(ss))

\* for person in people: assignment = DutyAssignment(...)
people_assignments(ppl, a) == [i \in 1..Len(ppl) |-> <<ppl[i], a>>]

\* Rows orientation, the body of the loop over the cells of a row;
\* col_idx and row_idx are 0-based.
rows_cell(c, col_idx, row_idx, lc) ==
    LET cc == cell_clean(c)
    IN  IF cell_skipped(cc) THEN <<>>
        ELSE people_assignments(parse_multiple_people(cc),
                DutyAssignment(day_of_index(row_idx),
                               location_for(lc, col_idx), row_idx))

\* Rows orientation, the body of the loop over the rows.
rows_row(row, row_idx, lc) ==
    IF ~day_in_range(day_of_index(row_idx)) THEN <<>>
    ELSE flatten([c \in 1..Len(row) |-> rows_cell(row[c], c - 1, row_idx, lc)])

rows_loop(rows, lc) ==
    flatten([r \in 1..Len(rows) |-> rows_row(rows[r], r - 1, lc)])

\* Columns orientation, the body of the loop over the cells of a row.
cols_cell(c, col_idx, row_idx, lc) ==
    LET cc == cell_clean(c)
    IN  IF cell_skipped(cc) \/ ~day_in_range(day_of_index(col_idx)) THEN <<>>
        ELSE people_assignments(parse_multiple_people(cc),
                DutyAssignment(day_of_index(col_idx),
                               location_for(lc, col_idx), row_idx))

\* Columns orientation, the body of the loop over the filtered rows.
cols_row(row, row_idx, lc) ==
    flatten([c \in 1..Len(row) |-> cols_cell(row[c], c - 1, row_idx, lc)])

cols_loop(rows, lc) ==
    flatten([r \in 1..Len(rows) |-> cols_row(rows[r], r - 1, lc)])

\* if person not in duty_schedule: duty_schedule[person] = []
\* duty_schedule[person].append(assignment)       for each pair, in order
RECURSIVE add_assignments(_, _)
add_assignments(sched, pairs) ==
    IF pairs = <<>> THEN sched
    ELSE add_assignments(dict_append(sched, Head(pairs)[1], Head(pairs)[2]),
                         Tail(pairs))

\* any(cell.strip() for cell in row if cell)
row_not_empty(row) ==
    \E i \in 1..Len(row) : row[i] # <<>> /\ strip(row[i]) # <<>>

\* A mutation of non_empty_rows: no row is filtered out.
non_empty_rows_unfiltered(rows) == rows

\* [row for row in csv_rows if any(...)]
non_empty_rows(rows) == SelectSeq(rows, row_not_empty)


Raise(msg) == [raised |-> TRUE, error |-> msg, value |-> EmptyDict]
Return(v) == [raised |-> FALSE, error |-> NoError, value |-> v]

\* A mutation of columns_check: an all-blank table is not rejected.
columns_check_accept_blank(ner) == FALSE

\* if len(non_empty_rows) < 1: raise ValueError(...)
columns_check(ner) == Len(ner) < 1

\* The whole method; orient is self.csv_format.get("orientation", "columns").
parse_duty_schedule(rows, lc, orient) ==
    IF rows = <<>> THEN Raise("CSV data is empty")
    ELSE IF orient = "rows"
         THEN Return(add_assignments(EmptyDict, rows_loop(rows, lc)))
         ELSE LET ner == non_empty_rows(rows)
              IN  IF columns_check(ner)
                  THEN Raise("No valid data found in CSV")
                  ELSE Return(add_assignments(EmptyDict, cols_loop(ner, lc)))

(***************************************************************************)
(* Values the variables hold while the part they belong to is not running. *)
(***************************************************************************)
Running == -1
NoSource == "none"

CellIdle == cell = <<>> /\ people = <<>>
DatesIdle == duty_assignments = <<>> /\ duty_dates = <<>>
ParserIdle ==
    /\ csv_rows = <<>>
    /\ orientation = "columns"
    /\ location_config = <<>>
    /\ duty_schedule = EmptyDict
    /\ error = NoError
MainIdle ==
    /\ csv_url = NoSource
    /\ person_idx = 0
    /\ duties_by_location = EmptyDict
    /\ loc_idx = 0
    /\ generated_files = <<>>
    /\ out_dir = {}
    /\ stdout = <<>>
    /\ exit_code = Running

\* All sequences over S of length at most n.
SeqsUpTo(S, n) == UNION {[1..k -> S] : k \in 0..n}

(***************************************************************************)
(* SpecCell: _parse_multiple_people applied to every cell string over      *)
(* CellAlphabet of length at most MaxCellLen.                              *)
(***************************************************************************)
CellAlphabet == {"a", "b", "A", "1", "2", "/", " ", "-"}

InitCell ==
    /\ pc = "cell_ready"
    /\ cell \in SeqsUpTo(CellAlphabet, MaxCellLen)
    /\ people = <<>>
    /\ year = 2025 /\ month = 1
    /\ DatesIdle /\ ParserIdle /\ MainIdle

ParseCell ==
    /\ pc = "cell_ready"
    /\ people' = parse_multiple_people(cell)
    /\ pc' = "cell_done"
    /\ UNCHANGED <<cell, year, month, duty_assignments, duty_dates, csv_url,
                   csv_rows, orientation, location_config, duty_schedule,
                   error, person_idx, duties_by_location, loc_idx,
                   generated_files, out_dir, stdout, exit_code>>

NextCell == ParseCell

SpecCell == InitCell /\ [][NextCell]_vars

(***************************************************************************)
(* C4.  The fragments of a cell are its maximal runs of non-separator      *)
(* characters, given here by their first and last positions.               *)
(***************************************************************************)
Fragments(s) ==
    {f \in (1..Len(s)) \X (1..Len(s)) :
        /\ f[1] <= f[2]
        /\ \A k \in f[1]..f[2] : s[k] \notin Separators
        /\ (f[1] = 1 \/ s[f[1] - 1] \in Separators)
        /\ (f[2] = Len(s) \/ s[f[2] + 1] \in Separators)}

FragmentHasCode(s, f) == \E k \in f[1]..f[2] : isalpha(s[k])

FragmentCode(s, f) ==
    lower(s[CHOOSE k \in f[1]..f[2] :
                /\ isalpha(s[k])
                /\ \A j \in f[1]..(k - 1) : ~isalpha(s[j])])

CodedFragments(s) == {f \in Fragments(s) : FragmentHasCode(s, f)}

\* Where the first fragment giving code c starts.
FirstSeen(s, c) ==
    CHOOSE i \in 1..Len(s) :
        /\ \E f \in CodedFragments(s) : f[1] = i /\ FragmentCode(s, f) = c
        /\ \A f \in CodedFragments(s) : FragmentCode(s, f) = c => i <= f[1]

\* C4: _parse_multiple_people returns the lowercased first letters of the
\* cell's fragments, each code once, in the order the codes are first seen;
\* "a/a/b" gives [a, b], "a/a" gives [a], and "", "  ", "12", "-" give [].
C4_ParseMultiplePeople ==
    pc = "cell_done" =>
        /\ \A p, q \in 1..Len(people) : p # q => people[p] # people[q]
        /\ {people[p] : p \in 1..Len(people)}
             = {FragmentCode(cell, f) : f \in CodedFragments(cell)}
        /\ \A p, q \in 1..Len(people) :
              p < q => FirstSeen(cell, people[p]) < FirstSeen(cell, people[q])
        /\ (cell = <<"a", "/", "a", "/", "b">> => people = <<"a", "b">>)
        /\ (cell = <<"a", "/", "a">> => people = <<"a">>)
        /\ (cell \in {<<>>, <<" ", " ">>, <<"1", "2">>, <<"-">>}
              => people = <<>>)

C4_Witness ==
    /\ pc = "cell_done"
    /\ cell = <<"a", "/", "a", "/", "b">>
    /\ people = <<"a", "b">>

(***************************************************************************)
(* Location names used as inputs.                                          *)
(***************************************************************************)
Ward1 == <<"W", "a", "r", "d", "1">>
WardSp1 == <<"W", "a", "r", "d", " ", "1">>
ICU == <<"I", "C", "U">>

(***************************************************************************)
(* SpecDates: get_duty_dates_with_types applied to every list of at most   *)
(* MaxAssign assignments, for every month of the years in Years.           *)
(***************************************************************************)
Years == {1900, 2000, 2024, 2025}
Months == 1..12
DayPool == {0, 1, 7, 29, 30, 31, 32}
AssignPool ==
    {DutyAssignment(d, l, 0) : d \in DayPool, l \in {Ward1, ICU}}

InitDates ==
    /\ pc = "dates_ready"
    /\ year \in Years
    /\ month \in Months
    /\ duty_assignments \in SeqsUpTo(AssignPool, MaxAssign)
    /\ duty_dates = <<>>
    /\ CellIdle /\ ParserIdle /\ MainIdle

MaterializeDates ==
    /\ pc = "dates_ready"
    /\ duty_dates' = get_duty_dates_with_types(year, month, duty_assignments)
    /\ pc' = "dates_done"
    /\ UNCHANGED <<cell, people, year, month, duty_assignments, csv_url,
                   csv_rows, orientation, location_config, duty_schedule,
                   error, person_idx, duties_by_location, loc_idx,
                   generated_files, out_dir, stdout, exit_code>>

NextDates == MaterializeDates

SpecDates == InitDates /\ [][NextDates]_vars

(***************************************************************************)
(* C7.  The calendar, stated independently of datetime's ordinal           *)
(* arithmetic: the lengths of the months by the usual rule, and the day of *)
(* the week by Zeller's congruence (0 = Saturday, 1 = Sunday).             *)
(***************************************************************************)
GregorianLeap(y) == y % 400 = 0 \/ (y % 4 = 0 /\ y % 100 # 0)

DayExists(y, m, d) ==
    /\ m \in 1..12
    /\ d >= 1
    /\ d <= (IF m \in {4, 6, 9, 11} THEN 30
             ELSE IF m = 2 THEN (IF GregorianLeap(y) THEN 29 ELSE 28)
             ELSE 31)

Zeller(y, m, d) ==
    LET mm == IF m < 3 THEN m + 12 ELSE m
        yy == IF m < 3 THEN y - 1 ELSE y
        K == yy % 100
        J == yy \div 100
    IN  (d + ((13 * (mm + 1)) \div 5) + K + (K \div 4) + (J \div 4) + 5 * J) % 7

SaturdayOrSunday(y, m, d) == Zeller(y, m, d) \in {0, 1}

\* The positions of the assignments whose day exists in the month.
ExistingIdx(y, m, as) == {i \in 1..Len(as) : DayExists(y, m, as[i].day)}

\* The position in as of the k-th assignment whose day exists.
KthExisting(y, m, as, k) ==
    CHOOSE i \in ExistingIdx(y, m, as) :
        Cardinality({j \in ExistingIdx(y, m, as) : j <= i}) = k

\* C7: get_duty_dates_with_types returns, in input order, one DutyDate for
\* each assignment whose day exists in the month and none for the others;
\* each carries the assignment's location, and is_weekend is true exactly
\* when the date is a Saturday or a Sunday.
C7_DutyDates ==
    pc = "dates_done" =>
        /\ Len(duty_dates)
             = Cardinality(ExistingIdx(year, month, duty_assignments))
        /\ \A k \in 1..Len(duty_dates) :
              LET a == duty_assignments[
                          KthExisting(year, month, duty_assignments, k)]
              IN  /\ duty_dates[k].date = <<year, month, a.day>>
                  /\ duty_dates[k].location = a.location
                  /\ duty_dates[k].is_weekend
                       = SaturdayOrSunday(year, month, a.day)

\* February 2025: day 30 is dropped, day 1 is a Saturday.
C7_Witness ==
    /\ pc = "dates_done"
    /\ year = 2025 /\ month = 2
    /\ duty_assignments
         = <<DutyAssignment(30, Ward1, 0), DutyAssignment(1, ICU, 0)>>
    /\ duty_dates
         = <<[date |-> <<2025, 2, 1>>, is_weekend |-> TRUE, location |-> ICU]>>

(***************************************************************************)
(* SpecParse: parse_duty_schedule applied to tables of at most MaxRows     *)
(* rows drawn from RowPool, as they are or moved below / to the right of   *)
(* MaxDay - 1 empty rows / cells, in both orientations; then               *)
(* get_duty_dates_with_types applied to one occupant's list, as main does. *)
(***************************************************************************)
Empty == <<>>
Blank == <<" ">>
CellA == <<"a">>
CellB == <<"b">>
CellAB == <<"a", "/", "b">>
Cell12 == <<"1", "2">>
CellUpperA == <<" ", "A", " ">>
CellBA == <<"b", "-", "a">>

RowPool ==
    { <<>>,
      <<Empty, Blank>>,
      <<CellA, CellB>>,
      <<CellB, Empty>>,
      <<CellAB, Cell12>>,
      <<Cell12, CellUpperA, CellBA>> }

\* n empty rows above the table
PadRows(t, n) == [i \in 1..n |-> <<>>] \o t

\* n empty cells to the left of every row
PadCols(t, n) == [r \in 1..Len(t) |-> [i \in 1..n |-> Empty] \o t[r]]

Tables(n) ==
    LET W == SeqsUpTo(RowPool, n)
    IN  W \cup {PadRows(t, MaxDay - 1) : t \in W}
          \cup {PadCols(t, MaxDay - 1) : t \in W}

CfgDefault == [default |-> Ward1]
CfgOverrides == [by_column |-> (0 :> ICU @@ (MaxDay - 1) :> WardSp1)]
Configs == {CfgDefault, CfgOverrides}

InitParse ==
    /\ pc = "parse_ready"
    /\ csv_rows \in Tables(MaxRows)
    /\ orientation \in {"rows", "columns"}
    /\ location_config \in Configs
    /\ year = 2025
    /\ month = 4
    /\ duty_schedule = EmptyDict
    /\ error = NoError
    /\ CellIdle /\ DatesIdle /\ MainIdle

\* parser.parse_duty_schedule(csv_rows)
Parse ==
    /\ pc = "parse_ready"
    /\ LET r == parse_duty_schedule(csv_rows, location_config, orientation)
       IN  /\ error' = r.error
           /\ duty_schedule' = IF r.raised THEN duty_schedule ELSE r.value
    /\ pc' = "parsed"
    /\ UNCHANGED <<cell, people, year, month, duty_assignments, duty_dates,
                   csv_url, csv_rows, orientation, location_config,
                   person_idx, duties_by_location, loc_idx, generated_files,
                   out_dir, stdout, exit_code>>

\* parser.get_duty_dates_with_types(duty_assignments) for one occupant
MaterializePerson ==
    /\ pc = "parsed"
    /\ error = NoError
    /\ \E i \in 1..Len(duty_schedule) :
          /\ duty_assignments' = duty_schedule[i][2]
          /\ duty_dates' =
                get_duty_dates_with_types(year, month, duty_schedule[i][2])
    /\ pc' = "materialized"
    /\ UNCHANGED <<cell, people, year, month, csv_url, csv_rows, orientation,
                   location_config, duty_schedule, error, person_idx,
                   duties_by_location, loc_idx, generated_files, out_dir,
                   stdout, exit_code>>

NextParse == Parse \/ MaterializePerson

SpecParse == InitParse /\ [][NextParse]_vars

(***************************************************************************)
(* What the parser's contract says of a table, stated on the table itself. *)
(***************************************************************************)
\* A row whose cells are all empty or whitespace.
BlankRow(row) ==
    \A i \in 1..Len(row) : \A k \in 1..Len(row[i]) : row[i][k] \in Whitespace

\* A cell that, trimmed, contains an alphabetic character.
Accepted(c) == \E k \in 1..Len(c) : c[k] \in LowerCase \cup UpperCase

\* The occupant codes of a cell.
Codes(c) == {FragmentCode(c, f) : f \in CodedFragments(c)}

\* The location configured for a column.
ConfiguredLocation(lc, c) ==
    IF "by_column" \in DOMAIN lc /\ c \in DOMAIN lc.by_column
    THEN lc.by_column[c]
    ELSE IF "default" \in DOMAIN lc THEN lc.default ELSE GenericWard

\* The number of non-blank rows above row r (1-based) of table t.
NonBlankAbove(t, r) == Cardinality({q \in 1..(r - 1) : ~BlankRow(t[q])})

AllCodes == LowerCase

\* The length of the longest row of table t.
Width(t) ==
    IF t = <<>> THEN 0
    ELSE CHOOSE w \in {Len(t[r]) : r \in 1..Len(t)} :
            \A r \in 1..Len(t) : Len(t[r]) <= w

ListToSet(l) == {l[i] : i \in 1..Len(l)}
NoRepeats(l) == \A i, j \in 1..Len(l) : i # j => l[i] # l[j]

\* The assignments of occupant p in schedule d (none when p is no key).
AssignmentsOf(d, p) == IF dict_has(d, p) THEN dict_get(d, p) ELSE <<>>

\* The cells <<row (1-based), column (0-based)>> of table t from which the
\* columns orientation owes occupant p an assignment, and the assignment.
ColumnsCells(t, p) ==
    {x \in (1..Len(t)) \X (0..(MaxDay - 1)) :
        /\ ~BlankRow(t[x[1]])
        /\ x[2] < Len(t[x[1]])
        /\ Accepted(t[x[1]][x[2] + 1])
        /\ p \in Codes(t[x[1]][x[2] + 1])}

ColumnsAssignment(t, lc, x) ==
    DutyAssignment(x[2] + 1, ConfiguredLocation(lc, x[2]),
                   NonBlankAbove(t, x[1]))

\* The same for the rows orientation.
RowsCells(t, p) ==
    {x \in (1..Len(t)) \X (0..Width(t)) :
        /\ x[1] <= MaxDay
        /\ x[2] < Len(t[x[1]])
        /\ Accepted(t[x[1]][x[2] + 1])
        /\ p \in Codes(t[x[1]][x[2] + 1])}

RowsAssignment(t, lc, x) ==
    DutyAssignment(x[1], ConfiguredLocation(lc, x[2]), x[1] - 1)

Count(l, v) == Cardinality({i \in 1..Len(l) : l[i] = v})

\* Schedule d holds, for every occupant p, one assignment A(x) for each
\* cell x of Cells(p) and nothing else, and has a key exactly for the
\* occupants owed something.
HoldsExactly(d, Cells(_), A(_)) ==
    /\ NoRepeats(dict_keys(d))
    /\ ListToSet(dict_keys(d)) = {p \in AllCodes : Cells(p) # {}}
    /\ \A p \in AllCodes :
          LET owed == Cells(p)
              got == AssignmentsOf(d, p)
          IN  /\ Len(got) = Cardinality(owed)
              /\ \A x \in owed :
                    Count(got, A(x))
                      = Cardinality({y \in owed : A(y) = A(x)})

(***************************************************************************)
(* C1                                                                      *)
(***************************************************************************)
C1Table == <<<<CellA, CellB>>, <<CellB, Empty>>>>

C1Case ==
    /\ pc = "parsed"
    /\ csv_rows = C1Table
    /\ orientation = "columns"
    /\ location_config = CfgDefault

\* The (day, location) pairs of a list of assignments, in order.
DayLocation(l) == [i \in 1..Len(l) |-> <<l[i].day, l[i].location>>]

\* C1 as stated: for [["a","b"],["b",""]], columns, default Ward1, the
\* schedule is {a: [(1, Ward1)], b: [(1, Ward1), (2, Ward1)]}, in that order.
C1_AsStated ==
    C1Case =>
        /\ error = NoError
        /\ ListToSet(dict_keys(duty_schedule)) = {"a", "b"}
        /\ Len(duty_schedule) = 2
        /\ DayLocation(AssignmentsOf(duty_schedule, "a")) = <<<<1, Ward1>>>>
        /\ DayLocation(AssignmentsOf(duty_schedule, "b"))
             = <<<<1, Ward1>>, <<2, Ward1>>>>

\* C1, amended: for [["a","b"],["b",""]], columns, default Ward1, the
\* schedule has exactly the occupants a and b; a's list is [(1, Ward1)] and
\* b's list is [(2, Ward1), (1, Ward1)]: row 0 puts b on day 2 before row 1
\* puts b on day 1.
C1_EndToEnd ==
    C1Case =>
        /\ error = NoError
        /\ ListToSet(dict_keys(duty_schedule)) = {"a", "b"}
        /\ Len(duty_schedule) = 2
        /\ DayLocation(AssignmentsOf(duty_schedule, "a")) = <<<<1, Ward1>>>>
        /\ DayLocation(AssignmentsOf(duty_schedule, "b"))
             = <<<<2, Ward1>>, <<1, Ward1>>>>

C1_Witness ==
    /\ C1Case
    /\ duty_schedule
         = << <<"a", <<DutyAssignment(1, Ward1, 0)>> >>,
              <<"b", <<DutyAssignment(2, Ward1, 0),
                       DutyAssignment(1, Ward1, 1)>> >> >>

(***************************************************************************)
(* C2                                                                      *)
(***************************************************************************)
ColumnsOwed(p) == ColumnsCells(csv_rows, p)
ColumnsOwe(x) == ColumnsAssignment(csv_rows, location_config, x)

\* C2: in the columns orientation every occupant code of every accepted
\* cell in a column c <= 30 of a non-blank row gets exactly one assignment
\* (day c + 1, the location of column c, row_index the row's position among
\* the non-blank rows), and nothing else is in the schedule: blank rows
\* shift row_index but no day, and columns c >= 31 contribute nothing.
C2_ColumnsOrientation ==
    (pc = "parsed" /\ orientation = "columns" /\ error = NoError)
        => HoldsExactly(duty_schedule, ColumnsOwed, ColumnsOwe)

\* A blank row between two populated rows, the cells in columns 30 and 31.
C2_Witness ==
    /\ pc = "parsed"
    /\ orientation = "columns"
    /\ location_config = CfgOverrides
    /\ csv_rows
         = PadCols(<<<<CellA, CellB>>, <<Empty, Blank>>, <<CellB, Empty>>>>,
                   MaxDay - 1)
    /\ duty_schedule
         = << <<"a", <<DutyAssignment(31, WardSp1, 0)>> >>,
              <<"b", <<DutyAssignment(31, WardSp1, 1)>> >> >>

(***************************************************************************)
(* C3                                                                      *)
(***************************************************************************)
RowsOwed(p) == RowsCells(csv_rows, p)
RowsOwe(x) == RowsAssignment(csv_rows, location_config, x)

\* C3: in the rows orientation no row is filtered: every occupant code of
\* every accepted cell of row r < 31 gets exactly one assignment with
\* day r + 1 and row_index r, rows r >= 31 contribute nothing, so every day
\* is in 1..31; and in a month of 30 days get_duty_dates_with_types drops
\* the assignments of day 31.
C3_RowsOrientation ==
    /\ (pc = "parsed" /\ orientation = "rows" /\ csv_rows # <<>>)
          => /\ error = NoError
             /\ HoldsExactly(duty_schedule, RowsOwed, RowsOwe)
             /\ \A i \in 1..Len(duty_schedule) :
                   \A k \in 1..Len(duty_schedule[i][2]) :
                      /\ duty_schedule[i][2][k].day \in 1..31
                      /\ duty_schedule[i][2][k].row_index
                           = duty_schedule[i][2][k].day - 1
    /\ (pc = "materialized" /\ orientation = "rows" /\ month = 4)
          => /\ \A k \in 1..Len(duty_dates) : duty_dates[k].date[3] # 31
             /\ Len(duty_dates)
                  = Cardinality({k \in 1..Len(duty_assignments) :
                                    duty_assignments[k].day # 31})

\* Rows 30 and 31 populated below 30 empty rows: row 30 gives day 31,
\* row 31 nothing, and April drops day 31.
C3_Witness ==
    /\ pc = "materialized"
    /\ orientation = "rows"
    /\ month = 4
    /\ location_config = CfgDefault
    /\ csv_rows = PadRows(<<<<CellA, CellB>>, <<CellB, Empty>>>>, MaxDay - 1)
    /\ duty_schedule
         = << <<"a", <<DutyAssignment(31, Ward1, 30)>> >>,
              <<"b", <<DutyAssignment(31, Ward1, 30)>> >> >>
    /\ duty_assignments = <<DutyAssignment(31, Ward1, 30)>>
    /\ duty_dates = <<>>

(***************************************************************************)
(* C5                                                                      *)
(***************************************************************************)
AllBlank(t) == \A r \in 1..Len(t) : BlankRow(t[r])

\* C5: parse_duty_schedule raises exactly when the table has no rows or,
\* in the columns orientation, when every row is blank; in the rows
\* orientation an all-blank table gives an empty schedule; a call that
\* raises returns no schedule.
C5_ParseErrors ==
    pc = "parsed" =>
        /\ (error # NoError)
             <=> (csv_rows = <<>> \/ (orientation # "rows" /\ AllBlank(csv_rows)))
        /\ (error # NoError) => duty_schedule = EmptyDict
        /\ (orientation = "rows" /\ csv_rows # <<>> /\ AllBlank(csv_rows))
             => (error = NoError /\ duty_schedule = EmptyDict)

C5_Witness ==
    /\ pc = "parsed"
    /\ orientation = "columns"
    /\ csv_rows = <<<<Empty, Blank>>, <<>>>>
    /\ error = "No valid data found in CSV"
    /\ duty_schedule = EmptyDict

(***************************************************************************)
(* CSVFetcher.fetch_csv_data.  The resource behind csv_url is either       *)
(* Unavailable (the request or the open fails) or holds the rows the csv   *)
(* reader decodes.                                                         *)
(***************************************************************************)
Unavailable == [available |-> FALSE, rows |-> <<>>]
Resource(t) == [available |-> TRUE, rows |-> t]

RaiseFetch(msg) == [raised |-> TRUE, error |-> msg, value |-> <<>>]

\* self.csv_url.startswith(("http://", "https://"))
is_url(kind) == kind = "url"

fetch_csv_data(kind, resource) ==
    IF ~resource.available
    THEN IF is_url(kind)
         THEN RaiseFetch("Failed to fetch CSV data")
         ELSE RaiseFetch("Error processing CSV data")
    ELSE IF is_url(kind)
         THEN IF resource.rows = <<>>
              THEN RaiseFetch("Error processing CSV data")
              ELSE Return(resource.rows)
         ELSE Return(resource.rows)

(***************************************************************************)
(* ICSGenerator                                                            *)
(***************************************************************************)
upper(c) ==
    CASE c = "a" -> "A"
      [] c = "b" -> "B"
      [] c = "c" -> "C"
      [] OTHER -> c

\* create_duty_event: what of the event depends on its arguments.
create_duty_event(duty_date, weekend, person, location) ==
    [date |-> duty_date,
     duty_type |-> IF weekend THEN "weekend" ELSE "weekday",
     person |-> upper(person),
     location |-> location]

\* location_counts[location] = location_counts.get(location, 0) + 1
RECURSIVE location_counts(_, _)
location_counts(dd, counts) ==
    IF dd = <<>> THEN counts
    ELSE LET loc == Head(dd).location
         IN  location_counts(Tail(dd),
                IF dict_has(counts, loc)
                THEN [i \in 1..Len(counts) |->
                        IF counts[i][1] = loc
                        THEN <<loc, counts[i][2] + 1>>
                        ELSE counts[i]]
                ELSE Append(counts, <<loc, 1>>))

\* max(location_counts, key=location_counts.get): the first key, in
\* insertion order, of the largest count.
primary_location(dd) ==
    IF dd = <<>> THEN GenericWard
    ELSE LET counts == location_counts(dd, <<>>)
             best == CHOOSE i \in 1..Len(counts) :
                        /\ \A j \in 1..Len(counts) : counts[j][2] <= counts[i][2]
                        /\ \A j \in 1..(i - 1) : counts[j][2] < counts[i][2]
         IN  counts[best][1]

NotSpace(c) == c # " "

\* primary_location.replace(" ", "")
replace_spaces(loc) == SelectSeq(loc, NotSpace)

\* The filename pattern "{char}_{location}.ics"
format_filename(char, location) ==
    <<char, "_">> \o location \o <<".", "i", "c", "s">>

\* generate_ics_file: the path and the calendar written to it.
generate_ics_file(person, dd) ==
    [path |-> format_filename(person, replace_spaces(primary_location(dd))),
     calendar |->
        [title |-> <<upper(person), primary_location(dd)>>,
         events |-> [i \in 1..Len(dd) |->
                        create_duty_event(dd[i].date, dd[i].is_weekend,
                                          person, dd[i].location)]]]

\* open(filepath, "wb") ... f.write(...): the file is created or replaced.
write_file(dir, file) == {f \in dir : f.path # file.path} \cup {file}

(***************************************************************************)
(* main                                                                    *)
(***************************************************************************)
\* duties_by_location[location].append((duty_date, is_weekend, location))
RECURSIVE group_by_location(_, _)
group_by_location(dd, groups) ==
    IF dd = <<>> THEN groups
    ELSE group_by_location(Tail(dd),
                           dict_append(groups, Head(dd).location, Head(dd)))

\* A printed line: its kind and the occupant, location and path it names.
Line(tag, person, location, path) ==
    [tag |-> tag, person |-> person, location |-> location, path |-> path]

\* max(len(row) for row in csv_data if row) raises ValueError on no row
preview_fails(rows) == \A r \in 1..Len(rows) : rows[r] = <<>>

\* A mutation of after_parse_error: generation goes on after a parse error.
after_parse_error_continue == "main_person"

\* except Exception: ... sys.exit(1)   (parse stage)
after_parse_error == "exited"

\* A mutation of after_generation_error: the failure ends the run.
after_generation_error_abort == "exited"

\* except Exception: print(...)   (generation stage; the loop goes on)
after_generation_error == "main_location"

MainRowPool ==
    { <<>>,
      <<Empty, Blank>>,
      <<CellA, CellAB>>,
      <<CellB, Empty, CellA>> }

MainTables(n) ==
    LET W == SeqsUpTo(MainRowPool, n)
    IN  W \cup {PadRows(t, MaxDay - 1) : t \in W}

CfgSpaces == [by_column |-> (0 :> WardSp1 @@ 1 :> Ward1), default |-> ICU]

InitMain ==
    /\ pc = "main_fetch"
    /\ csv_url \in {"url", "file"}
    /\ orientation \in {"rows", "columns"}
    /\ location_config \in {CfgDefault, CfgSpaces}
    /\ year = 2025
    /\ month = 4
    /\ csv_rows = <<>>
    /\ duty_schedule = EmptyDict
    /\ error = NoError
    /\ person_idx = 0
    /\ duties_by_location = EmptyDict
    /\ loc_idx = 0
    /\ generated_files = <<>>
    /\ out_dir = {}
    /\ stdout = <<>>
    /\ exit_code = Running
    /\ CellIdle /\ DatesIdle

\* Step 1: csv_data = fetcher.fetch_csv_data()
Fetch ==
    /\ pc = "main_fetch"
    /\ \E resource \in {Unavailable}
                         \cup {Resource(t) : t \in MainTables(MainMaxRows)} :
          LET r == fetch_csv_data(csv_url, resource)
          IN  IF r.raised
              THEN /\ error' = r.error
                   /\ stdout' = stdout \o <<Line("step1", "", <<>>, <<>>),
                                            Line("fetch_err", "", <<>>, <<>>)>>
                   /\ exit_code' = 1
                   /\ pc' = "exited"
                   /\ UNCHANGED csv_rows
              ELSE /\ csv_rows' = r.value
                   /\ stdout' = stdout \o <<Line("step1", "", <<>>, <<>>),
                                            Line("fetch_ok", "", <<>>, <<>>)>>
                   /\ pc' = "main_preview"
                   /\ UNCHANGED <<error, exit_code>>
    /\ UNCHANGED <<cell, people, year, month, duty_assignments, duty_dates,
                   csv_url, orientation, location_config, duty_schedule,
                   person_idx, duties_by_location, loc_idx, generated_files,
                   out_dir>>

\* Step 1, the preview of the fetched rows, inside the same try.
Preview ==
    /\ pc = "main_preview"
    /\ IF preview_fails(csv_rows)
       THEN /\ error' = "max() arg is an empty sequence"
            /\ stdout' = Append(stdout, Line("fetch_err", "", <<>>, <<>>))
            /\ exit_code' = 1
            /\ pc' = "exited"
       ELSE /\ stdout' = Append(stdout, Line("preview", "", <<>>, <<>>))
            /\ pc' = "main_parse"
            /\ UNCHANGED <<error, exit_code>>
    /\ UNCHANGED <<cell, people, year, month, duty_assignments, duty_dates,
                   csv_url, csv_rows, orientation, location_config,
                   duty_schedule, person_idx, duties_by_location, loc_idx,
                   generated_files, out_dir>>

\* Step 2: duty_schedule = parser.parse_duty_schedule(csv_data); then the
\* generator is constructed and generated_files = []
ParseStep ==
    /\ pc = "main_parse"
    /\ LET r == parse_duty_schedule(csv_rows, location_config, orientation)
       IN  IF r.raised
           THEN /\ error' = r.error
                /\ stdout' = stdout \o <<Line("step2", "", <<>>, <<>>),
                                         Line("parse_err", "", <<>>, <<>>)>>
                /\ exit_code' = 1
                /\ pc' = after_parse_error
                /\ UNCHANGED <<duty_schedule, person_idx, generated_files>>
           ELSE /\ duty_schedule' = r.value
                /\ stdout' = stdout \o <<Line("step2", "", <<>>, <<>>),
                                         Line("parse_ok", "", <<>>, <<>>),
                                         Line("step3", "", <<>>, <<>>)>>
                /\ person_idx' = 1
                /\ generated_files' = <<>>
                /\ pc' = "main_person"
                /\ UNCHANGED <<error, exit_code>>
    /\ UNCHANGED <<cell, people, year, month, duty_assignments, duty_dates,
                   csv_url, csv_rows, orientation, location_config,
                   duties_by_location, loc_idx, out_dir>>

\* for person, duty_assignments in duty_schedule.items(): the dates of the
\* next occupant, grouped by location; or the summary after the last one.
NextPerson ==
    /\ pc = "main_person"
    /\ IF person_idx > Len(duty_schedule)
       THEN /\ stdout' = Append(stdout, Line("complete", "", <<>>, <<>>))
            /\ exit_code' = 0
            /\ pc' = "done"
            /\ UNCHANGED <<person_idx, duty_assignments, duty_dates,
                           duties_by_location, loc_idx>>
       ELSE LET person == duty_schedule[person_idx][1]
                dd == get_duty_dates_with_types(year, month,
                                                duty_schedule[person_idx][2])
            IN  /\ duty_assignments' = duty_schedule[person_idx][2]
                /\ duty_dates' = dd
                /\ IF dd = <<>>
                   THEN /\ stdout' = Append(stdout, Line("skip", person, <<>>, <<>>))
                        /\ person_idx' = person_idx + 1
                        /\ pc' = "main_person"
                        /\ UNCHANGED <<duties_by_location, loc_idx>>
                   ELSE /\ duties_by_location' = group_by_location(dd, EmptyDict)
                        /\ loc_idx' = 1
                        /\ pc' = "main_location"
                        /\ UNCHANGED <<stdout, person_idx>>
                /\ UNCHANGED exit_code
    /\ UNCHANGED <<cell, people, year, month, csv_url, csv_rows, orientation,
                   location_config, duty_schedule, error, generated_files,
                   out_dir>>

\* for location, location_duties in duties_by_location.items(): the file
\* is generated and its path recorded.
GenerateOk ==
    /\ pc = "main_location"
    /\ loc_idx <= Len(duties_by_location)
    /\ LET person == duty_schedule[person_idx][1]
           file == generate_ics_file(person, duties_by_location[loc_idx][2])
       IN  /\ out_dir' = write_file(out_dir, file)
           /\ generated_files' = Append(generated_files, file.path)
           /\ stdout' = Append(stdout,
                            Line("generated", person,
                                 duties_by_location[loc_idx][1], file.path))
    /\ loc_idx' = loc_idx + 1
    /\ UNCHANGED <<pc, cell, people, year, month, duty_assignments, duty_dates,
                   csv_url, csv_rows, orientation, location_config,
                   duty_schedule, error, person_idx, duties_by_location,
                   exit_code>>

\* generate_ics_file raises before it writes (a template key, the open):
\* the error is printed and the loop goes on.
GenerateFail ==
    /\ pc = "main_location"
    /\ loc_idx <= Len(duties_by_location)
    /\ stdout' = Append(stdout, Line("gen_err", duty_schedule[person_idx][1],
                                     duties_by_location[loc_idx][1], <<>>))
    /\ loc_idx' = loc_idx + 1
    /\ pc' = after_generation_error
    /\ UNCHANGED <<cell, people, year, month, duty_assignments, duty_dates,
                   csv_url, csv_rows, orientation, location_config,
                   duty_schedule, error, person_idx, duties_by_location,
                   generated_files, out_dir, exit_code>>

\* The loop over the locations of one occupant ends.
LocationsDone ==
    /\ pc = "main_location"
    /\ loc_idx > Len(duties_by_location)
    /\ person_idx' = person_idx + 1
    /\ pc' = "main_person"
    /\ UNCHANGED <<cell, people, year, month, duty_assignments, duty_dates,
                   csv_url, csv_rows, orientation, location_config,
                   duty_schedule, error, duties_by_location, loc_idx,
                   generated_files, out_dir, stdout, exit_code>>

NextMain ==
    \/ Fetch
    \/ Preview
    \/ ParseStep
    \/ NextPerson
    \/ GenerateOk
    \/ GenerateFail
    \/ LocationsDone

SpecMain == InitMain /\ [][NextMain]_vars

(***************************************************************************)
(* What was printed.                                                       *)
(***************************************************************************)
Printed(tag) == \E i \in 1..Len(stdout) : stdout[i].tag = tag

IsAttempt(l) == l.tag \in {"generated", "gen_err"}
IsGenerated(l) == l.tag = "generated"

\* The lines of the generation attempts, in order.
Attempts == SelectSeq(stdout, IsAttempt)

(***************************************************************************)
(* C6                                                                      *)
(***************************************************************************)
\* C6: fetch_csv_data never returns a table with zero rows, whether the
\* source is a URL or a local file: zero rows make the fetch fail.
C6_FetchNeverEmpty ==
    pc = "main_preview" => csv_rows # <<>>

(***************************************************************************)
(* C8                                                                      *)
(***************************************************************************)
\* The positions, in the list of occupant i of the schedule, of the
\* assignments at location loc whose day exists in the month.
DatedAt(i, loc) ==
    {k \in 1..Len(duty_schedule[i][2]) :
        /\ duty_schedule[i][2][k].location = loc
        /\ DayExists(year, month, duty_schedule[i][2][k].day)}

AllLocations == {Ward1, WardSp1, ICU, GenericWard}

\* The (occupant position, location) pairs with at least one duty date.
Pairs ==
    {x \in (1..Len(duty_schedule)) \X AllLocations : DatedAt(x[1], x[2]) # {}}

\* File f holds one event for each duty date of pair x and nothing else.
FileOfPair(f, x) ==
    LET ev == f.calendar.events
        as == duty_schedule[x[1]][2]
    IN  /\ Len(ev) = Cardinality(DatedAt(x[1], x[2]))
        /\ \A e \in 1..Len(ev) :
              /\ ev[e].person = upper(duty_schedule[x[1]][1])
              /\ ev[e].location = x[2]
        /\ \A k \in DatedAt(x[1], x[2]) :
              Cardinality({e \in 1..Len(ev) :
                              ev[e].date = <<year, month, as[k].day>>})
                = Cardinality({j \in DatedAt(x[1], x[2]) :
                                  as[j].day = as[k].day})

\* C8: after a run in which no generation fails, the output directory
\* holds one file per (occupant, location) pair with a duty date: distinct
\* pairs have distinct files, and the file of a pair holds exactly one
\* event for each duty date of the pair and no event of another pair.
C8_OneFilePerPair ==
    (pc = "done" /\ ~Printed("gen_err")) =>
        /\ Cardinality(out_dir) = Cardinality(Pairs)
        /\ \A x \in Pairs : \E f \in out_dir : FileOfPair(f, x)

(***************************************************************************)
(* C9                                                                      *)
(***************************************************************************)
\* The position in the schedule of occupant p.
PersonIdx(p) == CHOOSE i \in 1..Len(duty_schedule) : duty_schedule[i][1] = p

\* Where location loc is first met among the duty dates of occupant i.
FirstMet(i, loc) ==
    CHOOSE k \in DatedAt(i, loc) : \A j \in DatedAt(i, loc) : k <= j

PairOfLine(l) == <<PersonIdx(l.person), l.location>>

\* C9: a failing generation is printed and skipped: by the summary every
\* pair has been attempted exactly once, in the order of the occupants and,
\* within an occupant, of its locations; generated_files holds the paths
\* of the successful attempts only; and once generation has begun the run
\* never exits early and can always take its next step.
C9_GenerationContinues ==
    /\ pc = "done" =>
          /\ Len(Attempts) = Cardinality(Pairs)
          /\ \A x \in Pairs :
                \E j \in 1..Len(Attempts) : PairOfLine(Attempts[j]) = x
          /\ \A j, k \in 1..Len(Attempts) :
                j < k =>
                   LET x == PairOfLine(Attempts[j])
                       y == PairOfLine(Attempts[k])
                   IN  \/ x[1] < y[1]
                       \/ x[1] = y[1] /\ FirstMet(x[1], x[2]) < FirstMet(y[1], y[2])
    /\ generated_files
         = [j \in 1..Len(SelectSeq(Attempts, IsGenerated)) |->
               SelectSeq(Attempts, IsGenerated)[j].path]
    /\ Printed("step3") => (pc # "exited" /\ exit_code # 1)
    /\ pc \in {"main_person", "main_location"} => ENABLED NextMain

\* A failure followed by a success for the same occupant and by a success
\* for a later occupant.
C9_Witness ==
    /\ pc = "done"
    /\ \E j, k, l \in 1..Len(Attempts) :
          /\ j < k /\ k < l
          /\ Attempts[j].tag = "gen_err"
          /\ Attempts[k].tag = "generated"
          /\ Attempts[k].person = Attempts[j].person
          /\ Attempts[l].tag = "generated"
          /\ Attempts[l].person # Attempts[j].person
    /\ Len(generated_files) = Len(Attempts) - 1

(***************************************************************************)
(* C10                                                                     *)
(***************************************************************************)
Before(tagA, i) == \E j \in 1..(i - 1) : stdout[j].tag = tagA

\* C10: the stages run in the order fetch, parse, generate; a failed fetch
\* exits with a non-zero status before the parser is invoked, a failed
\* parse exits with a non-zero status before anything is generated or
\* written; a file is written only after fetch and parse have succeeded.
C10_StageOrder ==
    /\ \A i \in 1..Len(stdout) :
          /\ stdout[i].tag = "step1" => i = 1
          /\ stdout[i].tag = "step2" => Before("preview", i)
          /\ stdout[i].tag \in {"step3", "generated", "gen_err", "skip",
                                "complete"}
                => Before("parse_ok", i)
    /\ Printed("fetch_err") =>
          /\ pc = "exited" /\ exit_code = 1
          /\ ~Printed("step2")
          /\ duty_schedule = EmptyDict
          /\ out_dir = {} /\ generated_files = <<>>
    /\ Printed("parse_err") =>
          /\ pc = "exited" /\ exit_code = 1
          /\ ~Printed("step3") /\ ~Printed("generated") /\ ~Printed("gen_err")
          /\ out_dir = {} /\ generated_files = <<>>
    /\ out_dir # {} =>
          /\ Printed("preview") /\ Printed("parse_ok")
          /\ ~Printed("fetch_err") /\ ~Printed("parse_err")

\* A run whose parse failed: every row blank, columns orientation.
C10_Witness ==
    /\ pc = "exited"
    /\ exit_code = 1
    /\ Printed("preview")
    /\ Printed("parse_err")
    /\ csv_rows = <<<<Empty, Blank>>>>

(***************************************************************************)
(* C11.  The scan order, stated on the table: cells are visited by rows    *)
(* top to bottom and, within a row, by columns left to right; within a     *)
(* cell the occupants come in the order they are first seen.               *)
(***************************************************************************)
\* The schedule has been returned by parse_duty_schedule.
ScheduleBuilt ==
    /\ pc \in {"parsed", "materialized", "main_person", "main_location", "done"}
    /\ error = NoError

\* The cells that owe occupant p an assignment, and the assignment owed.
ScannedCells(p) ==
    IF orientation = "rows" THEN RowsCells(csv_rows, p)
    ELSE ColumnsCells(csv_rows, p)

ScanAssignment(x) ==
    IF orientation = "rows" THEN RowsAssignment(csv_rows, location_config, x)
    ELSE ColumnsAssignment(csv_rows, location_config, x)

\* Cell x = <<row, column>> is visited before cell y.
CellBefore(x, y) == x[1] < y[1] \/ (x[1] = y[1] /\ x[2] < y[2])

CellAt(x) == csv_rows[x[1]][x[2] + 1]

\* The first visited cell of a set S of cells.
FirstCell(S) == CHOOSE x \in S : \A y \in S : x = y \/ CellBefore(x, y)

\* Occupant p, whose first cell is x, is extracted for the first time
\* before occupant q, whose first cell is y.
FirstBefore(p, x, q, y) ==
    \/ CellBefore(x, y)
    \/ x = y /\ FirstSeen(CellAt(x), p) < FirstSeen(CellAt(x), q)

\* The number of cells of S visited up to and including cell x.
ScanRank(S, x) == Cardinality({y \in S : y = x \/ CellBefore(y, x)})

\* The first visited cell holding the occupant at position i of the schedule.
FirstCellOfKey(i) == FirstCell(ScannedCells(duty_schedule[i][1]))

\* C11: the schedule is built in scan order: the keys are in the order in
\* which the occupants are first extracted; the k-th assignment of an
\* occupant's list comes from the k-th visited cell holding the occupant,
\* so row_index never decreases along a list; and main makes its
\* generation attempts in the order of the keys and, within an occupant,
\* in the order its locations are first met among its duty dates.
C11_ScanOrder ==
    ScheduleBuilt =>
        /\ \A i \in 1..Len(duty_schedule) :
              LET p == duty_schedule[i][1]
                  got == duty_schedule[i][2]
                  cells == ScannedCells(p)
                  first == FirstCell(cells)
              IN  /\ \A j \in (i + 1)..Len(duty_schedule) :
                        FirstBefore(p, first,
                                    duty_schedule[j][1], FirstCellOfKey(j))
                  /\ Len(got) = Cardinality(cells)
                  /\ \A x \in cells :
                        got[ScanRank(cells, x)] = ScanAssignment(x)
                  /\ \A k, l \in 1..Len(got) :
                        k < l => got[k].row_index <= got[l].row_index
        /\ LET att == Attempts
           IN  \A j \in 1..Len(att) : \A k \in (j + 1)..Len(att) :
                  LET i == PersonIdx(att[j].person)
                      h == PersonIdx(att[k].person)
                  IN  \/ i < h
                      \/ i = h /\ FirstMet(i, att[j].location)
                                    < FirstMet(i, att[k].location)

\* Columns orientation, b before a in row 0, a's cells in columns 2, 0, 1:
\* the keys are b, a; a's days are 3, 1, 2; the attempts follow.
C11_Witness ==
    /\ pc = "done"
    /\ orientation = "columns"
    /\ location_config = CfgSpaces
    /\ csv_rows = <<<<CellB, Empty, CellA>>, <<CellA, CellAB>>>>
    /\ duty_schedule
         = << <<"b", <<DutyAssignment(1, WardSp1, 0),
                       DutyAssignment(2, Ward1, 1)>> >>,
              <<"a", <<DutyAssignment(3, ICU, 0),
                       DutyAssignment(1, WardSp1, 1),
                       DutyAssignment(2, Ward1, 1)>> >> >>
    /\ [j \in 1..Len(Attempts) |-> <<Attempts[j].person, Attempts[j].location>>]
         = << <<"b", WardSp1>>, <<"b", Ward1>>,
              <<"a", ICU>>, <<"a", WardSp1>>, <<"a", Ward1>> >>

=============================================================================
